---- MODULE Spec2Model ----
(***************************************************************************)
(* Model of livekit/agents/tts/tts.py: the lifecycle of one TTS stream     *)
(* (a ChunkedStream or a SynthesizeStream), its background task, its two   *)
(* channels, the consumer's __anext__ with the connect/keepalive timeout,  *)
(* and push_text / flush / end_input / aclose.                             *)
(*                                                                         *)
(* Time is discrete: Tick lets one unit of time pass while a __anext__     *)
(* call is suspended in its receive.                                       *)
(***************************************************************************)
EXTENDS Integers, Sequences, FiniteSets, TLC

\* ---------------------------------------------------------------- bounds
\* Largest timeout value tried for connect_timeout / keepalive_timeout.
MaxTimeout == 1
\* Largest number of items push_text()/flush() may put on the input channel
\* (end_input() may add its one flush marker beyond that).
MaxInput == 2
\* Largest number of events the background task sends over the stream's life.
MaxEvents == 2

\* Longest time a single __anext__ call is followed while it waits: one unit
\* past the largest timeout.
MaxWait == MaxTimeout + 1

VARIABLES
    kind,               \* "chunked" (ChunkedStream) or "synth" (SynthesizeStream)
    connect_timeout,    \* self._connect_timeout
    keepalive_timeout,  \* self._keepalive_timeout
    timeout,            \* self._timeout
    event_ch,           \* self._event_ch: [queue, closed]
    input_ch,           \* self._input_ch: [queue, closed] (SynthesizeStream)
    task,               \* self._task: [state, cancelling, cb, segment_id, pending]
    anext,              \* __anext__: [pc, used, waited] of the call in progress;
                        \* history: called (a call has returned or raised),
                        \* timedOut (a call has raised the timeout error),
                        \* slow (a call has returned an event after waiting)
    aclose,             \* the aclose() coroutine: [pc, returned]
    lastOp,             \* history: the call that returned or raised in the last step
                        \* (push_text, flush, end_input, __anext__) and its outcome
    sent,               \* history: events the task sent, in order
    received,           \* history: events __anext__ returned, in order
    pushed,             \* history: items push_text/flush/end_input appended, in call order
    consumed,           \* history: input items the task received, in order
    flushes,            \* history: number of flush markers issued (flush + end_input)
    ended               \* history: "no" | "failed" | "ok": outcome of end_input() calls so far

vars == <<kind, connect_timeout, keepalive_timeout, timeout, event_ch, input_ch,
          task, anext, aclose, lastOp, sent, received, pushed, consumed, flushes,
          ended>>

\* The timeouts a stream is constructed with. A value <= 0 disables the
\* timeout whatever it is: connect_timeout takes -1 and keepalive_timeout
\* takes 0 as the disabling value, so that both are exercised. An enabled
\* connect_timeout is the largest timeout, an enabled keepalive_timeout one
\* time unit.
ConnectTimeoutValues == {-1, MaxTimeout}
KeepaliveTimeoutValues == {0, 1}

Terminated == {"done", "failed", "cancelled"}

\* ------------------------------------------------------------ aio.Chan
\* utils.aio.Chan: an unbounded FIFO with a closed flag.
NewChan == [queue |-> <<>>, closed |-> FALSE]

\* Chan.send_nowait(value): append at the tail.
send_nowait(ch, value) == [ch EXCEPT !.queue = Append(@, value)]

\* Chan.close(): set the closed flag; queued items stay receivable.
chan_close(ch) == [ch EXCEPT !.closed = TRUE]

\* Chan.recv can return an item: the queue is not empty (closed or not).
chan_ready(ch) == Len(ch.queue) > 0

\* Chan.__anext__ raises StopAsyncIteration: closed and drained.
chan_exhausted(ch) == ch.closed /\ Len(ch.queue) = 0

\* ---------------------------------------------------------------- input items
Token(id) == [t |-> "token", id |-> id]
FlushSentinel(id) == [t |-> "flush", id |-> id]

\* lastOp when the last step was no call that returned or raised.
NoOp ==
    [op |-> "none", res |-> "none", appended |-> FALSE, used |-> 0, waited |-> 0,
     first |-> FALSE, afterTimeout |-> FALSE, afterSlow |-> FALSE]

\* ---------------------------------------------------------------- Init
\* ChunkedStream.__init__ / SynthesizeStream.__init__
Init ==
    /\ kind \in {"chunked", "synth"}
    /\ connect_timeout \in ConnectTimeoutValues
    /\ keepalive_timeout \in KeepaliveTimeoutValues
    /\ timeout = connect_timeout
    /\ event_ch = NewChan
    /\ input_ch = NewChan
    /\ task = [state |-> "running", cancelling |-> FALSE, cb |-> "registered",
               segment_id |-> 0, pending |-> 0]
    /\ anext = [pc |-> "idle", used |-> 0, waited |-> 0, called |-> FALSE,
                timedOut |-> FALSE, slow |-> FALSE]
    /\ aclose = [pc |-> "idle", returned |-> FALSE]
    /\ lastOp = NoOp
    /\ sent = <<>>
    /\ received = <<>>
    /\ pushed = <<>>
    /\ consumed = <<>>
    /\ flushes = 0
    /\ ended = "no"

\* ---------------------------------------------------------------- the background task
\* _main_task is abstract: the provider's task, as the stream's contract
\* describes it. A ChunkedStream's task produces zero or more events and
\* terminates; a SynthesizeStream's task drains the input channel, emits events
\* tagged with its current segment_id and advances segment_id at every flush
\* marker.

\* The task sends one SynthesizedAudio on the event channel.
main_task_send ==
    /\ task.state = "running"
    /\ ~task.cancelling
    /\ ~event_ch.closed
    /\ Len(sent) < MaxEvents
    /\ kind = "synth" => task.pending > 0
    /\ LET ev == [segment_id |-> task.segment_id, n |-> Len(sent) + 1]
       IN  /\ event_ch' = send_nowait(event_ch, ev)
           /\ sent' = Append(sent, ev)
    /\ task' = [task EXCEPT !.pending = IF kind = "synth" THEN @ - 1 ELSE @]
    /\ lastOp' = NoOp
    /\ UNCHANGED <<kind, connect_timeout, keepalive_timeout, timeout, input_ch,
                   anext, aclose, received, pushed, consumed, flushes, ended>>

\* The task receives the next item of the input channel: a token starts the
\* synthesis of zero or more events, a flush marker ends the segment.
main_task_recv ==
    /\ kind = "synth"
    /\ task.state = "running"
    /\ ~task.cancelling
    /\ task.pending = 0
    /\ chan_ready(input_ch)
    /\ LET item == Head(input_ch.queue)
       IN  /\ input_ch' = [input_ch EXCEPT !.queue = Tail(@)]
           /\ consumed' = Append(consumed, item)
           /\ IF item.t = "flush"
              THEN task' = [task EXCEPT !.segment_id = @ + 1]
              ELSE \E n \in 0 .. (MaxEvents - Len(sent)) :
                      task' = [task EXCEPT !.pending = n]
    /\ lastOp' = NoOp
    /\ UNCHANGED <<kind, connect_timeout, keepalive_timeout, timeout, event_ch,
                   anext, aclose, sent, received, pushed, flushes, ended>>

\* The task returns normally: a chunked task at any point, a streaming task
\* once the input channel is closed and drained and nothing is left to emit.
main_task_return ==
    /\ task.state = "running"
    /\ ~task.cancelling
    /\ kind = "synth" => (chan_exhausted(input_ch) /\ task.pending = 0)
    /\ task' = [task EXCEPT !.state = "done"]
    /\ lastOp' = NoOp
    /\ UNCHANGED <<kind, connect_timeout, keepalive_timeout, timeout, event_ch,
                   input_ch, anext, aclose, sent, received, pushed,
                   consumed, flushes, ended>>

\* The task terminates with an exception (a provider-side error).
main_task_raise ==
    /\ task.state = "running"
    /\ ~task.cancelling
    /\ task' = [task EXCEPT !.state = "failed"]
    /\ lastOp' = NoOp
    /\ UNCHANGED <<kind, connect_timeout, keepalive_timeout, timeout, event_ch,
                   input_ch, anext, aclose, sent, received, pushed,
                   consumed, flushes, ended>>

\* The task observes the cancellation requested by aclose() and unwinds.
main_task_cancelled ==
    /\ task.state = "running"
    /\ task.cancelling
    /\ task' = [task EXCEPT !.state = "cancelled"]
    /\ lastOp' = NoOp
    /\ UNCHANGED <<kind, connect_timeout, keepalive_timeout, timeout, event_ch,
                   input_ch, anext, aclose, sent, received, pushed,
                   consumed, flushes, ended>>

\* Mutant of done_callback: the callback runs as soon as it is registered.
done_callback_eager ==
    /\ task.cb = "registered"
    /\ event_ch' = chan_close(event_ch)
    /\ task' = [task EXCEPT !.cb = "ran"]
    /\ lastOp' = NoOp
    /\ UNCHANGED <<kind, connect_timeout, keepalive_timeout, timeout, input_ch,
                   anext, aclose, sent, received, pushed, consumed,
                   flushes, ended>>

\* Mutant of done_callback: the callback closes the channel only for a task
\* that returned normally.
done_callback_success_only ==
    /\ task.state \in Terminated
    /\ task.cb = "registered"
    /\ event_ch' = IF task.state = "done" THEN chan_close(event_ch) ELSE event_ch
    /\ task' = [task EXCEPT !.cb = "ran"]
    /\ lastOp' = NoOp
    /\ UNCHANGED <<kind, connect_timeout, keepalive_timeout, timeout, input_ch,
                   anext, aclose, sent, received, pushed, consumed,
                   flushes, ended>>

\* self._task.add_done_callback(lambda _: self._event_ch.close()): the loop
\* runs the callback some time after the task has terminated, whatever its
\* outcome; the task's exception is not looked at.
done_callback ==
    /\ task.state \in Terminated
    /\ task.cb = "registered"
    /\ event_ch' = chan_close(event_ch)
    /\ task' = [task EXCEPT !.cb = "ran"]
    /\ lastOp' = NoOp
    /\ UNCHANGED <<kind, connect_timeout, keepalive_timeout, timeout, input_ch,
                   anext, aclose, sent, received, pushed, consumed,
                   flushes, ended>>

\* ---------------------------------------------------------------- push_text / flush / end_input
\* _check_input_not_ended passes.
check_input_not_ended == ~input_ch.closed

\* _check_not_closed passes.
check_not_closed == ~event_ch.closed

\* Mutant of mutating_checks: the two checks in the other order.
mutating_checks_closed_first ==
    IF ~check_not_closed THEN "StreamClosed"
    ELSE IF ~check_input_not_ended THEN "InputEnded"
    ELSE "ok"

\* The two checks push_text() and flush() start with, in the order they are
\* made: the error raised, or "ok".
mutating_checks ==
    IF ~check_input_not_ended THEN "InputEnded"
    ELSE IF ~check_not_closed THEN "StreamClosed"
    ELSE "ok"

\* self._input_ch.send_nowait(token)
push_text_send(ch, id) == send_nowait(ch, Token(id))

\* Mutant of flush_send: the marker jumps the queue.
flush_send_front(ch, id) == [ch EXCEPT !.queue = <<FlushSentinel(id)>> \o @]

\* self._input_ch.send_nowait(self._FlushSentinel())
flush_send(ch, id) == send_nowait(ch, FlushSentinel(id))

\* Mutant of end_input_effect: the input is closed without the flush marker.
end_input_no_flush(ch, id) == chan_close(ch)

\* Mutant of end_input_effect: closing the input drops what is still queued.
end_input_discard(ch, id) == [queue |-> <<FlushSentinel(id)>>, closed |-> TRUE]

\* end_input() once flush()'s checks passed: the flush marker, then close.
end_input_effect(ch, id) == chan_close(flush_send(ch, id))

\* What a push_text / flush / end_input call did: the error it raised or
\* "ok", and whether the input channel's queue changed.
OpRecord(op, res, appended) ==
    [NoOp EXCEPT !.op = op, !.res = res, !.appended = appended]

push_text ==
    /\ kind = "synth"
    /\ LET r == mutating_checks
       IN  /\ IF r = "ok"
              THEN /\ Len(pushed) < MaxInput
                   /\ input_ch' = push_text_send(input_ch, Len(pushed) + 1)
                   /\ pushed' = Append(pushed, Token(Len(pushed) + 1))
              ELSE UNCHANGED <<input_ch, pushed>>
           /\ lastOp' = OpRecord("push_text", r, input_ch'.queue # input_ch.queue)
    /\ UNCHANGED <<kind, connect_timeout, keepalive_timeout, timeout, event_ch,
                   task, anext, aclose, sent, received, consumed, flushes, ended>>

flush ==
    /\ kind = "synth"
    /\ LET r == mutating_checks
       IN  /\ IF r = "ok"
              THEN /\ Len(pushed) < MaxInput
                   /\ input_ch' = flush_send(input_ch, Len(pushed) + 1)
                   /\ pushed' = Append(pushed, FlushSentinel(Len(pushed) + 1))
                   /\ flushes' = flushes + 1
              ELSE UNCHANGED <<input_ch, pushed, flushes>>
           /\ lastOp' = OpRecord("flush", r, input_ch'.queue # input_ch.queue)
    /\ UNCHANGED <<kind, connect_timeout, keepalive_timeout, timeout, event_ch,
                   task, anext, aclose, sent, received, consumed, ended>>

\* Mutant of end_input: the input is closed even when flush() raised.
end_input_close_always ==
    /\ kind = "synth"
    /\ LET r == mutating_checks
       IN  /\ IF r = "ok"
              THEN /\ input_ch' = end_input_effect(input_ch, Len(pushed) + 1)
                   /\ pushed' = Append(pushed, FlushSentinel(Len(pushed) + 1))
                   /\ flushes' = flushes + 1
                   /\ ended' = "ok"
              ELSE /\ input_ch' = chan_close(input_ch)
                   /\ UNCHANGED <<pushed, flushes>>
                   /\ ended' = IF ended = "ok" THEN "ok" ELSE "failed"
           /\ lastOp' = OpRecord("end_input", r, input_ch'.queue # input_ch.queue)
    /\ UNCHANGED <<kind, connect_timeout, keepalive_timeout, timeout, event_ch,
                   task, anext, aclose, sent, received, consumed>>

\* end_input(): self.flush() raises or appends; only then is the input closed.
end_input ==
    /\ kind = "synth"
    /\ LET r == mutating_checks
       IN  /\ IF r = "ok"
              THEN /\ input_ch' = end_input_effect(input_ch, Len(pushed) + 1)
                   /\ pushed' = Append(pushed, FlushSentinel(Len(pushed) + 1))
                   /\ flushes' = flushes + 1
                   /\ ended' = "ok"
              ELSE /\ UNCHANGED <<input_ch, pushed, flushes>>
                   /\ ended' = IF ended = "ok" THEN "ok" ELSE "failed"
           /\ lastOp' = OpRecord("end_input", r, input_ch'.queue # input_ch.queue)
    /\ UNCHANGED <<kind, connect_timeout, keepalive_timeout, timeout, event_ch,
                   task, anext, aclose, sent, received, consumed>>

\* ---------------------------------------------------------------- aclose
\* Mutant of aclose_input: aclose() leaves the input channel open.
aclose_input_kept(ch) == ch

\* self._input_ch.close(), the first statement of SynthesizeStream.aclose().
aclose_input(ch) == chan_close(ch)

\* Mutant of aclose_begin: the cancellation is requested of a task that has
\* already terminated too.
aclose_begin_recancel ==
    /\ aclose.pc = "idle"
    /\ input_ch' = IF kind = "synth" THEN aclose_input(input_ch) ELSE input_ch
    /\ task' = [task EXCEPT !.cancelling = TRUE]
    /\ aclose' = [aclose EXCEPT !.pc = "cancelling"]
    /\ lastOp' = NoOp
    /\ UNCHANGED <<kind, connect_timeout, keepalive_timeout, timeout, event_ch,
                   anext, sent, received, pushed, consumed, flushes, ended>>

\* aclose(), up to its await: a SynthesizeStream closes its input channel;
\* gracefully_cancel requests the cancellation of the task (nothing to cancel
\* once the task has terminated) and waits for it.
aclose_begin ==
    /\ aclose.pc = "idle"
    /\ input_ch' = IF kind = "synth" THEN aclose_input(input_ch) ELSE input_ch
    /\ task' = [task EXCEPT !.cancelling = (@ \/ task.state = "running")]
    /\ aclose' = [aclose EXCEPT !.pc = "cancelling"]
    /\ lastOp' = NoOp
    /\ UNCHANGED <<kind, connect_timeout, keepalive_timeout, timeout, event_ch,
                   anext, sent, received, pushed, consumed, flushes, ended>>

\* Mutant of aclose_event: aclose() returns without closing the event channel.
aclose_event_kept(ch) == ch

\* self._event_ch.close(), the last statement of aclose().
aclose_event(ch) == chan_close(ch)

\* Mutant of aclose_finish: aclose() does not wait for the task to stop.
aclose_finish_nowait ==
    /\ aclose.pc = "cancelling"
    /\ event_ch' = aclose_event(event_ch)
    /\ aclose' = [aclose EXCEPT !.pc = "idle", !.returned = TRUE]
    /\ lastOp' = NoOp
    /\ UNCHANGED <<kind, connect_timeout, keepalive_timeout, timeout, input_ch,
                   task, anext, sent, received, pushed, consumed, flushes,
                   ended>>

\* aclose() resumes once the task has stopped: self._event_ch.close().
aclose_finish ==
    /\ aclose.pc = "cancelling"
    /\ task.state \in Terminated
    /\ event_ch' = aclose_event(event_ch)
    /\ aclose' = [aclose EXCEPT !.pc = "idle", !.returned = TRUE]
    /\ lastOp' = NoOp
    /\ UNCHANGED <<kind, connect_timeout, keepalive_timeout, timeout, input_ch,
                   task, anext, sent, received, pushed, consumed, flushes,
                   ended>>

\* ---------------------------------------------------------------- __anext__
\* Mutant of anext_deadline: the wait bound is always connect_timeout.
anext_deadline_connect == connect_timeout

\* The wait bound of a __anext__ call: self._timeout as read on entry
\* (a value <= 0 takes the branch without wait_for).
anext_deadline == timeout

\* Mutant of anext_next_timeout: the assignment after the receive is missing.
anext_timeout_kept == timeout

\* self._timeout = self._keepalive_timeout, after a successful receive.
anext_next_timeout == keepalive_timeout

\* Mutant of anext_receive: the else is missing, so a call that went through
\* wait_for receives again and returns the second event.
anext_receive_twice(ch) ==
    IF Len(ch.queue) > 1
    THEN [event |-> ch.queue[2], ch |-> [ch EXCEPT !.queue = Tail(Tail(@))]]
    ELSE [event |-> Head(ch.queue), ch |-> [ch EXCEPT !.queue = Tail(@)]]

\* event = await self._event_ch.__anext__(), in either branch: the one
\* receive of a __anext__ call, the head of the channel.
anext_receive(ch) ==
    [event |-> Head(ch.queue), ch |-> [ch EXCEPT !.queue = Tail(@)]]

\* Mutant of wait_for_branch: a timeout of zero also goes through wait_for.
wait_for_branch_nonneg(t) == t >= 0

\* if self._timeout > 0: the branch that bounds the receive with wait_for.
wait_for_branch(t) == t > 0

\* Mutant of wait_for_expired: wait_for gives up one time unit early.
wait_for_expired_early(waited, t) == waited + 1 >= t

\* asyncio.wait_for(..., self._timeout) gives up: the call has waited the
\* whole timeout.
wait_for_expired(waited, t) == waited >= t

\* The call in progress returns or raises res.
AnextReturned(res) ==
    [pc |-> "idle", used |-> 0, waited |-> 0, called |-> TRUE,
     timedOut |-> (anext.timedOut \/ res = "timeout"),
     slow |-> (anext.slow \/ (res = "ok" /\ anext.waited > 0))]

\* What the call in progress did: its outcome, the wait bound it applied, how
\* long it waited, whether it was the first call, whether an earlier call
\* had raised the timeout error, and whether an earlier call had returned an
\* event after waiting.
AnextRecord(res) ==
    [NoOp EXCEPT !.op = "anext", !.res = res, !.used = anext.used,
                 !.waited = anext.waited, !.first = ~anext.called,
                 !.afterTimeout = anext.timedOut, !.afterSlow = anext.slow]

\* __anext__ is entered and suspends in its receive.
anext_call ==
    /\ anext.pc = "idle"
    /\ anext' = [anext EXCEPT !.pc = "waiting", !.used = anext_deadline]
    /\ lastOp' = NoOp
    /\ UNCHANGED <<kind, connect_timeout, keepalive_timeout, timeout, event_ch,
                   input_ch, task, aclose, sent, received, pushed,
                   consumed, flushes, ended>>

\* The receive returns an event: the timeout becomes keepalive_timeout and
\* the event is returned.
anext_event ==
    /\ anext.pc = "waiting"
    /\ chan_ready(event_ch)
    /\ LET r == anext_receive(event_ch)
       IN  /\ event_ch' = r.ch
           /\ received' = Append(received, r.event)
    /\ timeout' = anext_next_timeout
    /\ anext' = AnextReturned("ok")
    /\ lastOp' = AnextRecord("ok")
    /\ UNCHANGED <<kind, connect_timeout, keepalive_timeout, input_ch, task,
                   aclose, sent, pushed, consumed, flushes, ended>>

\* The channel is closed and drained: StopAsyncIteration leaves __anext__
\* before the timeout is reassigned.
anext_stop ==
    /\ anext.pc = "waiting"
    /\ chan_exhausted(event_ch)
    /\ anext' = AnextReturned("eos")
    /\ lastOp' = AnextRecord("eos")
    /\ UNCHANGED <<kind, connect_timeout, keepalive_timeout, timeout, event_ch,
                   input_ch, task, aclose, sent, received, pushed,
                   consumed, flushes, ended>>

\* wait_for gives up after the wait bound: the receive is cancelled and
\* "synthesis timed out" is raised; nothing else of the stream is touched.
anext_timeout ==
    /\ anext.pc = "waiting"
    /\ wait_for_branch(anext.used)
    /\ wait_for_expired(anext.waited, anext.used)
    /\ ~chan_ready(event_ch)
    /\ ~chan_exhausted(event_ch)
    /\ anext' = AnextReturned("timeout")
    /\ lastOp' = AnextRecord("timeout")
    /\ UNCHANGED <<kind, connect_timeout, keepalive_timeout, timeout, event_ch,
                   input_ch, task, aclose, sent, received, pushed,
                   consumed, flushes, ended>>

\* One unit of time passes while __anext__ waits: only while nothing can be
\* received and the wait bound, if any, has not been reached.
Tick ==
    /\ anext.pc = "waiting"
    /\ ~chan_ready(event_ch)
    /\ ~chan_exhausted(event_ch)
    /\ wait_for_branch(anext.used) => ~wait_for_expired(anext.waited, anext.used)
    /\ anext.waited < MaxWait
    /\ anext' = [anext EXCEPT !.waited = @ + 1]
    /\ lastOp' = NoOp
    /\ UNCHANGED <<kind, connect_timeout, keepalive_timeout, timeout, event_ch,
                   input_ch, task, aclose, sent, received, pushed,
                   consumed, flushes, ended>>

\* ---------------------------------------------------------------- specification
Next ==
    \/ main_task_send
    \/ main_task_recv
    \/ main_task_return
    \/ main_task_raise
    \/ main_task_cancelled
    \/ done_callback
    \/ push_text
    \/ flush
    \/ end_input
    \/ aclose_begin
    \/ aclose_finish
    \/ anext_call
    \/ anext_event
    \/ anext_stop
    \/ anext_timeout
    \/ Tick

Spec == Init /\ [][Next]_vars

\* A stream constructed with both timeouts disabled.
InitLive ==
    /\ Init
    /\ connect_timeout <= 0
    /\ keepalive_timeout <= 0

\* The steps of such a stream: with no timeout the passing of time changes
\* nothing and wait_for is never used.
NextLive ==
    \/ main_task_send
    \/ main_task_recv
    \/ main_task_return
    \/ main_task_raise
    \/ main_task_cancelled
    \/ done_callback
    \/ push_text
    \/ flush
    \/ end_input
    \/ aclose_begin
    \/ aclose_finish
    \/ anext_call
    \/ anext_event
    \/ anext_stop

\* A stream with the timeouts disabled, under the scheduling the event loop
\* guarantees and with a consumer that keeps iterating: a done-callback
\* scheduled by the loop is run; a consumer that is not inside __anext__
\* calls it again; a receive that can complete (an event is queued, or the
\* channel is closed and drained) completes.
LiveSpec ==
    /\ InitLive
    /\ [][NextLive]_vars
    /\ WF_vars(done_callback)
    /\ WF_vars(anext_call)
    /\ WF_vars(anext_event)
    /\ WF_vars(anext_stop)

\* ---------------------------------------------------------------- properties
IsPrefix(s, t) == Len(s) <= Len(t) /\ \A i \in 1 .. Len(s) : s[i] = t[i]

\* The segment_id values of a sequence of events.
SegmentsOf(events) == {events[i].segment_id : i \in 1 .. Len(events)}

\* aclose() has been called (it may not have returned yet).
AcloseCalled == aclose.pc = "cancelling" \/ aclose.returned

\* The last step was a push_text() or flush() call.
PushOrFlush == lastOp.op \in {"push_text", "flush"}

\* The last step was a __anext__ call returning or raising.
AnextDone == lastOp.op = "anext"

\* Whether an event had been received when the __anext__ call of the last
\* step was entered (that call's own event, if any, does not count).
ReceivedBeforeCall ==
    IF lastOp.res = "ok" THEN Len(received) > 1 ELSE Len(received) > 0

\* The timeout of the phase the stream is in: connect_timeout until an event
\* has been received, keepalive_timeout from then on.
PhaseTimeout == IF Len(received) > 0 THEN keepalive_timeout ELSE connect_timeout

\* The same for the phase the __anext__ call of the last step was entered in.
PhaseTimeoutAtCall ==
    IF ReceivedBeforeCall THEN keepalive_timeout ELSE connect_timeout

\* A stream consumed to end-of-stream after end_input(), the task having
\* finished normally and aclose() never called.
ConsumedToEnd ==
    /\ AnextDone
    /\ lastOp.res = "eos"
    /\ ended = "ok"
    /\ task.state = "done"
    /\ ~AcloseCalled

\* C1: the events successive __anext__ calls return are, in order, a prefix
\* of the events the background task sent: none reordered, duplicated or
\* skipped, for either kind of stream and every interleaving.
C1_EventsInSendOrder == IsPrefix(received, sent)

\* C1 witness: a streaming task sent two events, one per token, and both
\* were received.
C1_Witness ==
    /\ kind = "synth"
    /\ Len(received) = 2
    /\ Len(consumed) >= 2
    /\ consumed[1].t = "token"
    /\ consumed[2].t = "token"

\* C2: the task receives tokens and flush markers in the order push_text()
\* and flush() were called, so a flush marker is received after every token
\* pushed before it and before every token pushed after it.
C2_InputInPushOrder ==
    /\ IsPrefix(consumed, pushed)
    /\ \A i, j \in 1 .. Len(consumed) :
          (consumed[i].id < consumed[j].id) <=> (i < j)

\* C2 witness: a flush, then a token pushed after it, then end_input()'s
\* marker have all been received by the task.
C2_Witness ==
    /\ Len(consumed) = 3
    /\ consumed[1].t = "flush"
    /\ consumed[2].t = "token"

\* C3 as stated: a stream consumed to end-of-stream shows as many distinct
\* segment_id values as flushes were issued, plus one.
C3_SegmentCountEqualsFlushesPlusOne ==
    ConsumedToEnd => Cardinality(SegmentsOf(received)) = flushes + 1

\* C3 amended: a stream consumed to end-of-stream shows exactly the segments
\* the task produced an event for, at most flushes + 1 of them, and the
\* task's segment counter has advanced once per flush issued.
C3_SegmentsObserved ==
    ConsumedToEnd =>
        /\ SegmentsOf(received) = SegmentsOf(sent)
        /\ Cardinality(SegmentsOf(received)) <= flushes + 1
        /\ SegmentsOf(received) \subseteq 0 .. flushes
        /\ task.segment_id = flushes

\* C3 witness: two flushes in a row and end_input(), consumed to the end.
C3_Witness ==
    /\ ConsumedToEnd
    /\ flushes = 3
    /\ \A i \in 1 .. Len(pushed) : pushed[i].t = "flush"

\* C4 as stated: once end_input() has been called, whether it succeeded or
\* raised, every later push_text() or flush() raises "input ended".
C4_InputEndedAfterAnyEndInput ==
    (PushOrFlush /\ ended # "no") => lastOp.res = "InputEnded"

\* C4 amended: once end_input() has succeeded, every later push_text() or
\* flush() raises "input ended" and appends nothing, in every later state.
C4_InputEndedAfterEndInput ==
    (PushOrFlush /\ ended = "ok") =>
        (lastOp.res = "InputEnded" /\ ~lastOp.appended)

\* C4 witness: push_text() raised "input ended" after end_input(), with the
\* task finished and aclose() returned.
C4_Witness ==
    /\ lastOp.op = "push_text"
    /\ lastOp.res = "InputEnded"
    /\ ended = "ok"
    /\ task.state = "done"
    /\ aclose.returned

C6_FailureSurfaced ==
    (AnextDone /\ lastOp.res = "eos") => task.state # "failed"

\* C7 as stated: after a __anext__ call has raised the timeout error, every
\* further call signals end-of-stream.
C7_EndOfStreamAfterTimeout ==
    (AnextDone /\ lastOp.afterTimeout) => lastOp.res = "eos"

\* C8 as stated: a __anext__ call that raised the timeout error leaves the
\* task stopped and the event channel closed.
C8_ClosedAfterTimeout ==
    (AnextDone /\ lastOp.res = "timeout") =>
        (task.state \in Terminated /\ event_ch.closed)

\* C9 as stated: the first __anext__ call waits up to connect_timeout, every
\* later call up to keepalive_timeout.
C9_KeepaliveAfterFirstCall ==
    AnextDone =>
        lastOp.used = IF lastOp.first THEN connect_timeout ELSE keepalive_timeout

\* C9 amended: a __anext__ call waits up to connect_timeout as long as no
\* call has received an event, and up to keepalive_timeout once one has;
\* self._timeout never reverts and does not depend on the number of events.
C9_KeepaliveAfterFirstReceive ==
    /\ timeout = PhaseTimeout
    /\ anext.pc = "waiting" => anext.used = PhaseTimeout
    /\ AnextDone => lastOp.used = PhaseTimeoutAtCall

\* C9 witness: a second event was received by a call that applied a
\* keepalive_timeout different from connect_timeout.
C9_Witness ==
    /\ AnextDone
    /\ lastOp.res = "ok"
    /\ Len(received) = 2
    /\ lastOp.used = keepalive_timeout
    /\ keepalive_timeout # connect_timeout

\* C10 as stated: a first call made with connect_timeout > 0 to a task that
\* has produced no event raises the timeout error; so does a later call made
\* with keepalive_timeout > 0 that waited keepalive_timeout for a running
\* task.
C10_TimeoutWheneverNoEvent ==
    /\ (AnextDone /\ lastOp.first /\ connect_timeout > 0 /\ sent = <<>>)
          => lastOp.res = "timeout"
    /\ (AnextDone /\ ReceivedBeforeCall /\ keepalive_timeout > 0
          /\ lastOp.waited >= keepalive_timeout /\ lastOp.res # "ok"
          /\ task.state = "running")
          => lastOp.res = "timeout"

\* A __anext__ call has waited out the timeout of its phase with nothing to
\* receive from an event channel that is still open.
TimeoutDue ==
    /\ anext.pc = "waiting"
    /\ PhaseTimeout > 0
    /\ anext.waited >= PhaseTimeout
    /\ ~chan_ready(event_ch)
    /\ ~event_ch.closed

\* C10 amended: with the timeout of its phase > 0, a call never waits longer
\* than that timeout; once it has waited that long with nothing produced and
\* the event channel still open, it raises the timeout error before any more
\* time passes; it raises it only then, and signals end-of-stream only for
\* a closed channel.
C10_TimeoutWhileOpen ==
    /\ (anext.pc = "waiting" /\ PhaseTimeout > 0) => anext.waited <= PhaseTimeout
    /\ TimeoutDue => (ENABLED anext_timeout /\ ~ENABLED Tick)
    /\ (AnextDone /\ lastOp.res = "timeout") =>
          (PhaseTimeoutAtCall > 0 /\ lastOp.waited = PhaseTimeoutAtCall)
    /\ (AnextDone /\ lastOp.res = "eos") => event_ch.closed
    /\ (AnextDone /\ PhaseTimeoutAtCall > 0 /\ ~event_ch.closed
          /\ lastOp.waited >= PhaseTimeoutAtCall /\ lastOp.res # "ok")
          => lastOp.res = "timeout"

\* C10 witness: after an event was received, a call raised the timeout error
\* while the task was still running.
C10_Witness ==
    /\ AnextDone
    /\ lastOp.res = "timeout"
    /\ Len(received) > 0
    /\ task.state = "running"

\* A stream whose timeouts are both disabled.
TimeoutsDisabled == connect_timeout <= 0 /\ keepalive_timeout <= 0

\* C11: while the timeout of the phase is zero or less, __anext__ cannot
\* raise the timeout error however long the task stalls: the call goes on
\* waiting and ends only with an event or with end-of-stream from a closed
\* channel. This holds for each phase on its own.
C11_NoTimeoutWhenDisabled ==
    /\ (anext.pc = "waiting" /\ PhaseTimeout <= 0) => ~ENABLED anext_timeout
    /\ (anext.pc = "waiting" /\ PhaseTimeout <= 0 /\ ~chan_ready(event_ch)
          /\ ~event_ch.closed /\ anext.waited < MaxWait) => ENABLED Tick
    /\ (AnextDone /\ PhaseTimeoutAtCall <= 0) => lastOp.res \in {"ok", "eos"}
    /\ (AnextDone /\ PhaseTimeoutAtCall <= 0 /\ lastOp.res = "eos")
          => event_ch.closed

\* C11 witness: with connect_timeout > 0 and keepalive_timeout disabled, a
\* call made after the first receive waited longer than any timeout and
\* then returned an event.
C11_Witness ==
    /\ AnextDone
    /\ lastOp.res = "ok"
    /\ ReceivedBeforeCall
    /\ connect_timeout > 0
    /\ keepalive_timeout <= 0
    /\ lastOp.waited > MaxTimeout

\* C12: the deadline is per call: __anext__ raises the timeout error only
\* when the call itself has waited the whole timeout of its phase and the
\* task has produced nothing in that time (every event sent has been
\* received), whatever the number of events received and the time waited by
\* earlier calls. So a task that produces each event within the window of
\* the call waiting for it never makes a call time out.
C12_TimeoutOnlyAfterSilentWindow ==
    /\ (AnextDone /\ lastOp.res = "timeout") =>
          /\ PhaseTimeoutAtCall > 0
          /\ lastOp.waited = PhaseTimeoutAtCall
          /\ Len(received) = Len(sent)
    /\ ENABLED anext_timeout =>
          /\ PhaseTimeout > 0
          /\ anext.waited >= PhaseTimeout
          /\ Len(received) = Len(sent)

\* C12 witness: both timeouts enabled, no call ever timed out, and a second
\* event was received after a wait of keepalive_timeout by a call made after
\* an earlier call had waited too: the stream has lasted longer than either
\* timeout.
C12_Witness ==
    /\ AnextDone
    /\ lastOp.res = "ok"
    /\ Len(received) >= 2
    /\ connect_timeout > 0
    /\ keepalive_timeout > 0
    /\ lastOp.waited = keepalive_timeout
    /\ lastOp.afterSlow
    /\ ~anext.timedOut

\* C13: once the task has terminated, whatever its outcome, the event
\* channel is eventually closed without any consumer action; and a consumer
\* that keeps calling __anext__ with the timeouts disabled eventually has
\* received every event the task sent and then gets end-of-stream.
C13_ClosedAfterTermination ==
    /\ (task.state \in Terminated) ~> event_ch.closed
    /\ (task.state \in Terminated /\ TimeoutsDisabled)
          ~> (AnextDone /\ lastOp.res = "eos" /\ received = sent)

\* C13 witness: with the timeouts disabled and aclose() never called, the
\* consumer received both events of a task that then failed, and got
\* end-of-stream.
C13_Witness ==
    /\ TimeoutsDisabled
    /\ task.state = "failed"
    /\ ~AcloseCalled
    /\ AnextDone
    /\ lastOp.res = "eos"
    /\ Len(received) = 2

\* No step of the background task can be taken.
TaskStopped ==
    /\ task.state \in Terminated
    /\ ~ENABLED main_task_send
    /\ ~ENABLED main_task_recv
    /\ ~ENABLED main_task_return
    /\ ~ENABLED main_task_raise
    /\ ~ENABLED main_task_cancelled

\* A step of aclose(): its call or its return.
AcloseStep == aclose' # aclose

\* The stream apart from its input channel and the aclose() coroutine.
StreamButInput ==
    <<kind, connect_timeout, keepalive_timeout, timeout, event_ch, task, anext,
      sent, received, pushed, consumed, flushes, ended>>

\* C14: after a successful end_input() the input channel is closed and
\* nothing buffered is lost: what the task has received followed by what is
\* still queued is exactly what was pushed, in order, with end_input()'s
\* flush marker last; a task that returned has received all of it; and the
\* events the task sends are still delivered: the event channel stays open
\* while the task runs and holds every event sent and not yet received.
C14_BufferedInputDelivered ==
    ended = "ok" =>
        /\ input_ch.closed
        /\ consumed \o input_ch.queue = pushed
        /\ pushed[Len(pushed)].t = "flush"
        /\ task.state = "done" => consumed = pushed
        /\ task.state = "running" => ~event_ch.closed
        /\ received \o event_ch.queue = sent

\* C14 witness: two tokens were buffered when end_input() was called; the
\* task has received them and the marker, returned, and its two events
\* have been received.
C14_Witness ==
    /\ ended = "ok"
    /\ task.state = "done"
    /\ Len(consumed) = 3
    /\ consumed[1].t = "token"
    /\ consumed[2].t = "token"
    /\ Len(received) = 2

\* C15: aclose() can be called whenever no aclose() is in progress and
\* returns once the task has stopped; when it has returned the task has
\* terminated and can take no step, the event channel is closed, and the
\* input channel of a SynthesizeStream is closed.
C15_CloseLeavesStreamStopped ==
    /\ aclose.pc = "idle" => ENABLED aclose_begin
    /\ (aclose.pc = "cancelling" /\ task.state \in Terminated)
          => ENABLED aclose_finish
    /\ aclose.returned =>
          /\ TaskStopped
          /\ event_ch.closed
          /\ kind = "synth" => input_ch.closed

\* C15 witness: aclose() returned on a SynthesizeStream whose input was not
\* ended and whose running task it cancelled, before the done-callback ran
\* and with events still queued.
C15_Witness ==
    /\ aclose.returned
    /\ kind = "synth"
    /\ ended = "no"
    /\ task.state = "cancelled"
    /\ task.cb = "registered"
    /\ chan_ready(event_ch)

\* C16: aclose() is idempotent: a call made after an aclose() has returned
\* runs to its return and changes nothing of the stream, and an aclose()
\* called on a task that has already terminated (as after exhaustion) does
\* not cancel it again.
C16_CloseIdempotent ==
    [][ /\ (aclose.returned /\ AcloseStep) =>
              /\ UNCHANGED <<StreamButInput, input_ch>>
              /\ aclose'.returned
        /\ (task.state \in Terminated /\ AcloseStep) => task' = task
      ]_vars

\* C16 witness: a second aclose() is in progress after the first returned.
C16_Witness ==
    /\ aclose.returned
    /\ aclose.pc = "cancelling"

C18_EventsDiscardedByClose ==
    aclose.returned =>
        /\ ~chan_ready(event_ch)
        /\ AnextDone => lastOp.res = "eos"

\* C19: the event channel is closed only once the task has terminated, by
\* the done-callback or by an aclose() that has returned; so a running task
\* never finds the event channel closed.
C19_ClosedOnlyAfterTermination ==
    /\ event_ch.closed => task.state \in Terminated
    /\ event_ch.closed => (task.cb = "ran" \/ aclose.returned)

\* C19 witness: aclose() closed the event channel of a task it cancelled,
\* before the done-callback ran.
C19_Witness ==
    /\ event_ch.closed
    /\ task.state = "cancelled"
    /\ task.cb = "registered"
    /\ anext.pc = "waiting"

\* C20: a push_text(), flush() or end_input() call that raises changes
\* nothing of the stream: nothing is appended to the input channel and
\* neither channel's closed flag changes.
C20_FailedCallChangesNothing ==
    [][ (lastOp'.op \in {"push_text", "flush", "end_input"} /\ lastOp'.res # "ok")
          => UNCHANGED <<kind, connect_timeout, keepalive_timeout, timeout,
                         event_ch, input_ch, task, anext, aclose, sent,
                         received, pushed, consumed, flushes>>
      ]_vars

\* C20 witness: end_input() raised "is closed" on a stream whose task had
\* finished while the input was open, and the input channel is still open
\* with a token queued.
C20_Witness ==
    /\ lastOp.op = "end_input"
    /\ lastOp.res = "StreamClosed"
    /\ ~input_ch.closed
    /\ chan_ready(input_ch)

====
